---- MODULE Spec2Model ----
(***************************************************************************)
(* A model of process_modules_readmes.py: the conversion of a tree of      *)
(* module/example README.md files into Docusaurus pages.                   *)
(*                                                                         *)
(* Text the program inspects character by character (directory names,      *)
(* slugs, path components, image urls) is a sequence of one-character      *)
(* strings, so that splitting, searching and replacing are computed as     *)
(* the code computes them.  Text the program only carries along (titles,   *)
(* descriptions, body text between image references) is an atomic string.  *)
(***************************************************************************)
EXTENDS Integers, Sequences, FiniteSets, TLC

\* ------------------------------------------------------------------ text

None == "None"

LowerCase == <<"a","b","c","d","e","f","g","h","i","j","k","l","m",
               "n","o","p","q","r","s","t","u","v","w","x","y","z">>
UpperCase == <<"A","B","C","D","E","F","G","H","I","J","K","L","M",
               "N","O","P","Q","R","S","T","U","V","W","X","Y","Z">>

IsLower(c) == \E i \in DOMAIN LowerCase : LowerCase[i] = c
IsUpper(c) == \E i \in DOMAIN UpperCase : UpperCase[i] = c
IsCased(c) == IsLower(c) \/ IsUpper(c)

\* str.upper() / str.lower() on one character
ToUpper(c) == IF IsLower(c) THEN UpperCase[CHOOSE i \in DOMAIN LowerCase : LowerCase[i] = c] ELSE c
ToLower(c) == IF IsUpper(c) THEN LowerCase[CHOOSE i \in DOMAIN UpperCase : UpperCase[i] = c] ELSE c

UpperStr(s) == [i \in DOMAIN s |-> ToUpper(s[i])]

\* whether old occurs in s at position i (re.IGNORECASE when ci)
MatchesAt(s, old, i, ci) ==
    /\ i + Len(old) - 1 <= Len(s)
    /\ \A k \in 1..Len(old) :
          IF ci THEN ToLower(s[i + k - 1]) = ToLower(old[k]) ELSE s[i + k - 1] = old[k]

\* str.replace(old, new) and re.sub(re.escape(old), new, s): leftmost,
\* non-overlapping occurrences, left to right
RECURSIVE ReplaceFrom(_, _, _, _, _)
ReplaceFrom(s, old, new, i, ci) ==
    IF i > Len(s) THEN <<>>
    ELSE IF Len(old) > 0 /\ MatchesAt(s, old, i, ci)
         THEN new \o ReplaceFrom(s, old, new, i + Len(old), ci)
         ELSE <<s[i]>> \o ReplaceFrom(s, old, new, i + 1, ci)

RECURSIVE Interleave(_, _, _)
Interleave(s, new, i) ==
    IF i > Len(s) THEN new ELSE new \o <<s[i]>> \o Interleave(s, new, i + 1)

\* str.replace: an empty old matches before every character and at the end
StrReplace(s, old, new) ==
    IF Len(old) = 0 THEN Interleave(s, new, 1) ELSE ReplaceFrom(s, old, new, 1, FALSE)

\* str.split(sep) for a one-character separator
RECURSIVE SplitFrom(_, _, _, _)
SplitFrom(s, sep, i, cur) ==
    IF i > Len(s) THEN <<cur>>
    ELSE IF s[i] = sep THEN <<cur>> \o SplitFrom(s, sep, i + 1, <<>>)
    ELSE SplitFrom(s, sep, i + 1, Append(cur, s[i]))

Split(s, sep) == SplitFrom(s, sep, 1, <<>>)

\* sep.join(words)
RECURSIVE Join(_, _)
Join(words, sep) ==
    IF Len(words) = 0 THEN <<>>
    ELSE IF Len(words) = 1 THEN words[1]
    ELSE words[1] \o sep \o Join(Tail(words), sep)

\* str.title(): a cased character is uppercased when the character before it
\* is not cased, and lowercased otherwise
Title(s) ==
    [i \in DOMAIN s |->
        IF ~IsCased(s[i]) THEN s[i]
        ELSE IF i > 1 /\ IsCased(s[i - 1]) THEN ToLower(s[i]) ELSE ToUpper(s[i])]

\* -------------------------------------------------- short title synthesis

KNOWN_ACRYONYMS ==
    << <<"a","l","b">>, <<"a","s","g">>, <<"g","w","l","b">>, <<"n","l","b">>,
       <<"v","p","c">>, <<"t","g","w">>, <<"n","a","t","g","w">>, <<"n","a","t">>,
       <<"l","b">>, <<"h","t","t","p">>, <<"i","a","m">> >>

Vmseries == <<"v","m","s","e","r","i","e","s">>
VMSeries == <<"V","M","-","S","e","r","i","e","s">>

\* one round of the loop of capitalize_words_in_string: every match of word,
\* ignoring case, is replaced by its own text uppercased
RECURSIVE CapitalizeWordFrom(_, _, _)
CapitalizeWordFrom(s, word, i) ==
    IF i > Len(s) THEN <<>>
    ELSE IF Len(word) > 0 /\ MatchesAt(s, word, i, TRUE)
         THEN UpperStr(SubSeq(s, i, i + Len(word) - 1)) \o CapitalizeWordFrom(s, word, i + Len(word))
         ELSE <<s[i]>> \o CapitalizeWordFrom(s, word, i + 1)

CapitalizeWord(s, word) == CapitalizeWordFrom(s, word, 1)

RECURSIVE CapitalizeFrom(_, _, _)
CapitalizeFrom(word_list, s, k) ==
    IF k > Len(word_list) THEN s
    ELSE CapitalizeFrom(word_list, CapitalizeWord(s, word_list[k]), k + 1)

capitalize_words_in_string(word_list, input_string) == CapitalizeFrom(word_list, input_string, 1)

SlugWords(slug) == Split(StrReplace(slug, <<"-">>, <<"_">>), "_")

synthesize_short_title(slug) ==
    LET words == SlugWords(slug)
        short == capitalize_words_in_string(KNOWN_ACRYONYMS, Title(Join(words, <<" ">>)))
    IN  ReplaceFrom(short, Vmseries, VMSeries, 1, TRUE)

\* ------------------------------------------------------ metadata resolver

Aws    == <<"a","w","s">>
Azure  == <<"a","z","u","r","e">>
Google == <<"g","o","o","g","l","e">>
Gcp    == <<"g","c","p">>

\* the alternation of the pattern of extract_cloud_id, in its order
CloudPattern == <<Aws, Azure, Google, Gcp>>

Examples  == <<"e","x","a","m","p","l","e","s">>
Modules   == <<"m","o","d","u","l","e","s">>
ReadmeMd  == <<"R","E","A","D","M","E",".","m","d">>

AttributeError  == "AttributeError: 'NoneType' object has no attribute 'group'"
CloudIdError    == "ValueError: Could not find cloud ID in string"
ModuleTypeError == "ValueError: Could not determine module type from path"
IndexError      == "IndexError: tuple index out of range"

\* what a default of get_meta evaluates to: a plain value (callable FALSE), or
\* the outcome of calling the lambda (callable TRUE): a value or a raised error
Value(v)    == [callable |-> FALSE, err |-> None, val |-> v]
Returns(v)  == [callable |-> TRUE,  err |-> None, val |-> v]
Raises(e)   == [callable |-> TRUE,  err |-> e,    val |-> <<>>]

Min(S) == CHOOSE x \in S : \A y \in S : x <= y

\* re.search(r"-(aws|azure|google|gcp)", string), then google -> gcp
extract_cloud_id(string) ==
    LET hit(i, k) == MatchesAt(string, <<"-">> \o CloudPattern[k], i, FALSE)
        hits == {i \in 1..Len(string) : \E k \in DOMAIN CloudPattern : hit(i, k)}
    IN  IF hits = {} THEN Raises(CloudIdError)
        ELSE LET i == Min(hits)
                 k == Min({j \in DOMAIN CloudPattern : hit(i, j)})
             IN  Returns(StrReplace(CloudPattern[k], Google, Gcp))

\* Path.parts of the README found by module_directory.glob("*/README.md")
ReadmeParts(module_directory, dir) == module_directory \o <<dir, ReadmeMd>>

\* determine_module_type with "a module unless under examples" for the raise
determine_module_type_default(parts) ==
    IF Len(parts) < 3 THEN Raises(IndexError)
    ELSE IF parts[Len(parts) - 2] = Examples THEN Returns("example")
    ELSE Returns("module")

\* readme_path.parts[-3], the component above the README's directory
determine_module_type(parts) ==
    IF Len(parts) < 3 THEN Raises(IndexError)
    ELSE IF parts[Len(parts) - 2] = Examples THEN Returns("example")
    ELSE IF parts[Len(parts) - 2] = Modules THEN Returns("module")
    ELSE Raises(ModuleTypeError)

\* the default slug taken from readme_file.name instead of the parent's name
FileName(parts) == parts[Len(parts)]

\* readme_file.parent.name
ParentName(parts) == parts[Len(parts) - 1]

\* re.search(r"^# (.*)", readme_contents).group(1): heading is the text of a
\* level-one heading opening the body, or None when the body opens otherwise
FirstHeading(readme) ==
    IF readme.heading = None THEN Raises(AttributeError) ELSE Returns(readme.heading)

\* get_meta with the default called before the lookup
get_meta_eager(frontmatter, key, default) ==
    IF default.callable /\ default.err # None
    THEN [ran |-> TRUE, err |-> default.err, val |-> default.val]
    ELSE IF key \in DOMAIN frontmatter
         THEN [ran |-> default.callable, err |-> None, val |-> frontmatter[key]]
         ELSE [ran |-> default.callable, err |-> None, val |-> default.val]

\* ran: whether the default was called
get_meta(frontmatter, key, default) ==
    IF key \in DOMAIN frontmatter
    THEN [ran |-> FALSE, err |-> None, val |-> frontmatter[key]]
    ELSE [ran |-> default.callable, err |-> default.err, val |-> default.val]

\* the calls of read_and_parse_readme_file, in its order
MetaSlug(parts, readme)        == get_meta(readme.header, "slug", Value(ParentName(parts)))
MetaTitle(parts, readme)       == get_meta(readme.header, "title", FirstHeading(readme))
MetaCloudId(parts, readme)     == get_meta(readme.header, "cloudId", extract_cloud_id(parts[1]))
MetaShortTitle(readme, slug)   == get_meta(readme.header, "short_title", Returns(synthesize_short_title(slug)))
MetaType(parts, readme)        == get_meta(readme.header, "type", determine_module_type(parts))
MetaShowInHub(readme)          == get_meta(readme.header, "show_in_hub", Value("True"))
MetaDescription(readme)        == get_meta(readme.header, "description", Value(None))

TFModule(title, slug, cloud_id, short_title, type, show_in_hub, description, source_file, readme_contents) ==
    [title |-> title, slug |-> slug, cloud_id |-> cloud_id, short_title |-> short_title,
     type |-> type, show_in_hub |-> show_in_hub, description |-> description,
     source_file |-> source_file, readme_contents |-> readme_contents]

\* the first error raised, in the order of the calls, or the record built
read_and_parse_readme_file(parts, readme) ==
    LET slug  == MetaSlug(parts, readme)
        title == MetaTitle(parts, readme)
        cloud == MetaCloudId(parts, readme)
        short == MetaShortTitle(readme, slug.val)
        type  == MetaType(parts, readme)
        show  == MetaShowInHub(readme)
        descr == MetaDescription(readme)
    IN  IF title.err # None THEN [err |-> title.err]
        ELSE IF cloud.err # None THEN [err |-> cloud.err]
        ELSE IF type.err # None THEN [err |-> type.err]
        ELSE [err |-> None,
              module |-> TFModule(title.val, slug.val, cloud.val, short.val, type.val,
                                  show.val, descr.val, parts, readme.body)]

\* ------------------------------------------------------------- base64

Pad == 64

RECURSIVE b64encode(_)
b64encode(bytes) ==
    IF Len(bytes) = 0 THEN <<>>
    ELSE IF Len(bytes) = 1
         THEN <<bytes[1] \div 4, (bytes[1] % 4) * 16, Pad, Pad>>
    ELSE IF Len(bytes) = 2
         THEN <<bytes[1] \div 4, (bytes[1] % 4) * 16 + bytes[2] \div 16, (bytes[2] % 16) * 4, Pad>>
    ELSE <<bytes[1] \div 4, (bytes[1] % 4) * 16 + bytes[2] \div 16,
           (bytes[2] % 16) * 4 + bytes[3] \div 64, bytes[3] % 64>>
         \o b64encode(SubSeq(bytes, 4, Len(bytes)))

RECURSIVE b64decode(_)
b64decode(b64) ==
    IF Len(b64) < 4 THEN <<>>
    ELSE LET first == <<b64[1] * 4 + b64[2] \div 16>>
             second == IF b64[3] = Pad THEN <<>> ELSE <<(b64[2] % 16) * 16 + b64[3] \div 4>>
             third == IF b64[3] = Pad \/ b64[4] = Pad THEN <<>> ELSE <<(b64[3] % 4) * 64 + b64[4]>>
         IN  first \o second \o third \o b64decode(SubSeq(b64, 5, Len(b64)))

\* ----------------------------------------------------------- transforms

DotMd  == <<".","m","d">>
DotMdx == <<".","m","d","x">>
DotPng == <<".","p","n","g">>

\* A README body is a sequence of pieces: an image reference ![..](text), or a
\* run of other text.  Front matter fields are not searched for urls or tags.
Img(url)   == [kind |-> "img", text |-> url]
Text(text) == [kind |-> "text", text |-> text]

\* image_url.split("/")[-1]
ImageName(image_url) == LET segs == Split(image_url, "/") IN segs[Len(segs)]

\* re.finditer(r"!\[.*?\]\((.*?)\)", contents): the urls, in order
ImageUrls(body) ==
    LET at == [i \in DOMAIN body |-> body[i].kind = "img"]
    IN  [k \in 1..Cardinality({i \in DOMAIN body : at[i]}) |->
            body[CHOOSE i \in DOMAIN body :
                    at[i] /\ Cardinality({j \in 1..i : at[j]}) = k].text]

\* images[image_name] = ...: a dict keeps a key's first position
DictSet(d, key, value) ==
    IF \E i \in DOMAIN d : d[i][1] = key
    THEN [i \in DOMAIN d |-> IF d[i][1] = key THEN <<key, value>> ELSE d[i]]
    ELSE Append(d, <<key, value>>)

UrlError == "URLError"

\* urlopen(url).read(): remote maps the urls that can be fetched to their bytes
image_url_to_base64(remote, url) ==
    IF url \in DOMAIN remote THEN [err |-> None, b64 |-> b64encode(remote[url])]
    ELSE [err |-> UrlError, b64 |-> <<>>]

RECURSIVE DownloadFrom(_, _, _, _)
DownloadFrom(remote, urls, k, images) ==
    IF k > Len(urls) THEN [err |-> None, images |-> images]
    ELSE LET got == image_url_to_base64(remote, urls[k])
         IN  IF got.err # None THEN [err |-> got.err, images |-> images]
             ELSE DownloadFrom(remote, urls, k + 1, DictSet(images, ImageName(urls[k]), got.b64))

download_images(remote, module) ==
    DownloadFrom(remote, ImageUrls(module.readme_contents), 1, <<>>)

Keywords(cloud_id) ==
    <<"pan-os", "panos", "firewall", "configuration", "terraform", "vmseries", "vm-series", cloud_id>>

\* the new front matter over the body; description only when it is truthy
set_new_frontmatter(module) ==
    LET base == [id |-> module.slug, title |-> module.title,
                 sidebar_label |-> module.short_title, hide_title |-> TRUE,
                 pagination_next |-> None, pagination_prev |-> None,
                 keywords |-> Keywords(module.cloud_id)]
    IN  [metadata |-> IF module.description \notin {None, ""}
                      THEN ("description" :> module.description) @@ base
                      ELSE base,
         content  |-> module.readme_contents]

RECURSIVE ReplaceUrlsFrom(_, _, _)
ReplaceUrlsFrom(content, urls, k) ==
    IF k > Len(urls) THEN content
    ELSE ReplaceUrlsFrom(
            [i \in DOMAIN content |->
                [content[i] EXCEPT !.text = StrReplace(@, urls[k], ImageName(urls[k]) \o DotPng)]],
            urls, k + 1)

\* the urls are those of the text as given; each is replaced wherever it occurs
\* in the text as it stands by then
replace_image_urls(readme) ==
    [readme EXCEPT !.content = ReplaceUrlsFrom(@, ImageUrls(@), 1)]

Br      == <<"<","b","r",">">>
BrClose == <<"<","b","r"," ","/",">">>
Hr      == <<"<","h","r",">">>
HrClose == <<"<","h","r"," ","/",">">>
PreOpen  == <<"<","p","r","e",">">>
PreClose == <<"<","/","p","r","e",">">>

\* re.sub(r"<pre>(.*?)</pre>", ...): each <pre> up to the nearest </pre>
RECURSIVE EscapeFrom(_, _)
EscapeFrom(s, i) ==
    IF i > Len(s) THEN <<>>
    ELSE LET ends == {j \in (i + Len(PreOpen))..Len(s) : MatchesAt(s, PreClose, j, FALSE)}
         IN  IF MatchesAt(s, PreOpen, i, FALSE) /\ ends # {}
             THEN PreOpen
                  \o StrReplace(SubSeq(s, i + Len(PreOpen), Min(ends) - 1), <<"_">>, <<"\\", "_">>)
                  \o PreClose
                  \o EscapeFrom(s, Min(ends) + Len(PreClose))
             ELSE <<s[i]>> \o EscapeFrom(s, i + 1)

escape_underscores_in_pre_tags(input_string) == EscapeFrom(input_string, 1)

SanitizeText(s) == escape_underscores_in_pre_tags(StrReplace(StrReplace(s, Br, BrClose), Hr, HrClose))

sanitize_readme_contents(readme) ==
    [readme EXCEPT !.content = [i \in DOMAIN @ |-> [@[i] EXCEPT !.text = SanitizeText(@)]]]

\* ---------------------------------------------------------- destination

\* the destination directory maps the names of its files to their contents
OUTPUT_EXTENSION == <<"m","d">>

EndsWith(s, suffix) ==
    Len(s) >= Len(suffix) /\ MatchesAt(s, suffix, Len(s) - Len(suffix) + 1, FALSE)

\* delete_markdown_files with each loop left after its first file
delete_first_files(directory) ==
    LET first(suffix) ==
            LET found == {g \in DOMAIN directory : EndsWith(g, suffix)}
            IN  IF found = {} THEN {} ELSE {CHOOSE g \in found : TRUE}
        removed == first(DotMd) \cup first(DotMdx) \cup first(DotPng)
    IN  [f \in DOMAIN directory \ removed |-> directory[f]]

\* directory.glob("*.md"), "*.mdx", "*.png", each file removed
delete_markdown_files(directory) ==
    [f \in {g \in DOMAIN directory :
                ~EndsWith(g, DotMd) /\ ~EndsWith(g, DotMdx) /\ ~EndsWith(g, DotPng)}
        |-> directory[f]]

\* write_text / write_bytes: the file is created or replaced
WriteFile(directory, name, contents) ==
    [f \in DOMAIN directory \cup {name} |-> IF f = name THEN contents ELSE directory[f]]

\* dest_directory_path / f"{module.slug}.{OUTPUT_EXTENSION}"
DestFile(slug) == slug \o <<".">> \o OUTPUT_EXTENSION

\* save_image, called with image_name + ".png"
save_image(directory, b64image, image_name) ==
    WriteFile(directory, image_name, b64decode(b64image))

\* ------------------------------------------------------------ the inputs

MaxDirs  == 2
MaxRuns  == 2
MaxWords == 2

DirAlb == <<"a","l","b">>
DirNat == <<"n","a","t">>
DirVm  == <<"v","m">>
DirPool == {DirAlb, DirNat, DirVm}

UrlAB  == <<"h","/","a","/","b">>
UrlCB  == <<"h","/","c","/","b">>
UrlABC == <<"h","/","a","/","b","c">>
UrlNo  == <<"h","/","n","o">>

\* the images the network serves; UrlNo cannot be fetched
Remote == (UrlAB :> <<137, 80>>) @@ (UrlCB :> <<255>>) @@ (UrlABC :> <<1, 2, 3>>)

NoHeader == [k \in {} |-> None]

Readme(header, heading, body) == [header |-> header, heading |-> heading, body |-> body]

\* the READMEs a directory of the tree may hold
ReadmePool ==
    (DirAlb :> { Readme(NoHeader, "ALB", <<Img(UrlAB), Text(Br)>>),
                 Readme("show_in_hub" :> "False", "ALB", <<Img(UrlAB)>>),
                 Readme(("type" :> "refarch") @@ ("cloudId" :> Aws) @@ ("title" :> "T"),
                        None, <<Img(UrlAB), Img(UrlCB)>>) })
    @@
    (DirNat :> { Readme(NoHeader, "NAT", <<Img(UrlCB)>>),
                 Readme(("slug" :> DirAlb) @@ ("description" :> "d"), "NAT",
                        <<Text(PreOpen \o <<"a","_","b">> \o PreClose)>>),
                 Readme(NoHeader, None, <<>>) })
    @@
    (DirVm  :> { Readme("show_in_hub" :> "'no'", "VM", <<Img(UrlAB), Img(UrlABC)>>),
                 Readme(("cloudId" :> Gcp) @@ ("type" :> "module"), "VM", <<Img(UrlNo)>>),
                 Readme(NoHeader, "VM", <<Text(Hr)>>) })

Root      == <<"/">>
RepoAws   == <<"r","-","a","w","s">>
RepoGoogle == <<"t","-","g","o","o","g","l","e","-","x">>
Plain     == <<"w">>
Other     == <<"o","t","h","e","r">>

\* the modules directories given on the command line, as Path.parts
PathPool ==
    { <<RepoAws, Modules>>, <<RepoGoogle, Examples>>, <<Root, Plain, RepoAws, Modules>>,
      <<Plain, RepoGoogle, Examples>>, <<RepoAws, Other>>, <<Plain, Modules>>, <<>> }

TypeArgs == {None, "module", "example", "refarch"}

StaleText == [metadata |-> [id |-> <<"o","l","d">>], content |-> <<Text(<<"o","l","d">>)>>]

\* what the destination directory may hold before the first run
StartingDests ==
    { [f \in {} |-> StaleText],
      (<<"o",".","m","d">> :> StaleText) @@ (<<"p",".","m","d">> :> StaleText)
          @@ (<<"n",".","t","x","t">> :> StaleText),
      (<<"a","l","b",".","m","d">> :> StaleText) @@ (<<"o",".","m","d","x">> :> StaleText)
          @@ (<<"b",".","p","n","g">> :> <<7>>) @@ (<<"m","d">> :> StaleText) }

\* the orders in which glob may yield the directories of a set
Orders(S) == {o \in [1..Cardinality(S) -> S] : \A a, b \in DOMAIN o : a # b => o[a] # o[b]}

\* ------------------------------------------------------------- the state

VARIABLES
    modules_directory,  \* main's argument, as Path.parts
    tree,               \* directory name -> its README.md
    order,              \* the order in which glob yields the directories
    module_type,        \* main's --type argument, or None
    dest,               \* the destination directory: file name -> contents
    pc,                 \* where main is
    i, j,               \* the loop indices of main
    tf_modules,         \* main's tf_modules
    output_files,       \* main's output_files
    images,             \* main's images
    err,                \* the exception that ended main, or None
    log,                \* the steps of this run so far, as <<step, record>>
    run,                \* which run of main this is
    dest_start,         \* dest when this run began
    dest_prev,          \* dest when the run before this one ended
    mParts, mReadme,    \* read_and_parse_readme_file: its README
    mPc,                \* ... the call it is at
    mVals,              \* ... the values resolved so far
    mRan,               \* ... the keys whose default was called
    mErr,               \* ... the exception raised, or None
    tSlug,              \* synthesize_short_title: its argument
    tPc, tK,            \* ... the statement it is at, the acronym it is at
    tStr                \* ... short_title so far

mainVars == <<modules_directory, tree, order, module_type, dest, pc, i, j, tf_modules,
              output_files, images, err, log, run, dest_start, dest_prev>>
metaVars == <<mParts, mReadme, mPc, mVals, mRan, mErr>>
titleVars == <<tSlug, tPc, tK, tStr>>
vars == <<mainVars, metaVars, titleVars>>

MainIdle ==
    /\ modules_directory = <<>> /\ tree = <<>> /\ order = <<>> /\ module_type = None
    /\ dest = <<>> /\ pc = "idle" /\ i = 1 /\ j = 1 /\ tf_modules = <<>>
    /\ output_files = <<>> /\ images = <<>> /\ err = None /\ log = <<>> /\ run = 1
    /\ dest_start = <<>> /\ dest_prev = <<>>

MetaIdle ==
    /\ mParts = <<>> /\ mReadme = <<>> /\ mPc = "idle" /\ mVals = <<>> /\ mRan = {}
    /\ mErr = None

TitleIdle == tSlug = <<>> /\ tPc = "idle" /\ tK = 1 /\ tStr = <<>>

\* ------------------------------------------------------------------ main

Init ==
    /\ modules_directory \in PathPool
    /\ \E S \in SUBSET DirPool :
          /\ Cardinality(S) <= MaxDirs
          /\ order \in Orders(S)
          /\ tree \in [S -> UNION {ReadmePool[d] : d \in S}]
          /\ \A d \in S : tree[d] \in ReadmePool[d]
    /\ module_type \in TypeArgs
    /\ dest \in StartingDests
    /\ pc = "parse" /\ i = 1 /\ j = 1
    /\ tf_modules = <<>> /\ output_files = <<>> /\ images = <<>>
    /\ err = None /\ log = <<>> /\ run = 1
    /\ dest_start = dest /\ dest_prev = dest
    /\ MetaIdle /\ TitleIdle

\* the place in the glob order of the README a record was built from
RecordOf(module) ==
    CHOOSE k \in DOMAIN order : order[k] = module.source_file[Len(module.source_file) - 1]

\* the records the loop of main does not skip
Shown(modules) == SelectSeq(modules, LAMBDA m : m.show_in_hub # "False")

Raise(e) ==
    /\ pc' = "failed" /\ err' = e

\* get_module_readme_files with "a README that cannot be parsed is skipped"
ParseReadmeSkipping ==
    /\ pc = "parse" /\ i <= Len(order)
    /\ LET r == read_and_parse_readme_file(ReadmeParts(modules_directory, order[i]), tree[order[i]])
       IN  /\ tf_modules' = IF r.err # None THEN tf_modules ELSE Append(tf_modules, r.module)
           /\ i' = i + 1
           /\ log' = Append(log, <<"parse", i>>)
           /\ UNCHANGED <<pc, err>>
    /\ UNCHANGED <<modules_directory, tree, order, module_type, dest, j, output_files,
                   images, run, dest_start, dest_prev, metaVars, titleVars>>

\* one round of the loop of get_module_readme_files
ParseReadme ==
    /\ pc = "parse" /\ i <= Len(order)
    /\ LET r == read_and_parse_readme_file(ReadmeParts(modules_directory, order[i]), tree[order[i]])
       IN  IF r.err # None
           THEN Raise(r.err) /\ UNCHANGED <<tf_modules, i>>
           ELSE /\ tf_modules' = Append(tf_modules, r.module)
                /\ i' = i + 1
                /\ UNCHANGED <<pc, err>>
    /\ log' = Append(log, <<"parse", i>>)
    /\ UNCHANGED <<modules_directory, tree, order, module_type, dest, j, output_files,
                   images, run, dest_start, dest_prev, metaVars, titleVars>>

\* the filter with the requested type ignored
FilterByTypeIgnored(modules, type) == modules

\* tf_modules = [module for module in tf_modules if module.type == module_type]
FilterByType(modules, type) ==
    IF type = None THEN modules ELSE SelectSeq(modules, LAMBDA m : m.type = type)

Filter ==
    /\ pc = "parse" /\ i > Len(order)
    /\ tf_modules' = FilterByType(tf_modules, module_type)
    /\ pc' = "transform" /\ i' = 1
    /\ UNCHANGED <<modules_directory, tree, order, module_type, dest, j, output_files,
                   images, err, log, run, dest_start, dest_prev, metaVars, titleVars>>

\* what one round of the first loop of main appends to output_files
OutputFile(module) ==
    [contents |-> sanitize_readme_contents(replace_image_urls(set_new_frontmatter(module))),
     path |-> DestFile(module.slug)]

\* the round with "the page is written as soon as it is built"
ProcessModuleWriting ==
    /\ pc = "transform" /\ i <= Len(tf_modules)
    /\ LET module == tf_modules[i]
           got == download_images(Remote, module)
           out == OutputFile(module)
       IN  IF module.show_in_hub = "False"
           THEN i' = i + 1 /\ UNCHANGED <<pc, err, output_files, images, log, dest>>
           ELSE IF got.err # None
           THEN Raise(got.err) /\ UNCHANGED <<i, output_files, images, log, dest>>
           ELSE /\ output_files' = Append(output_files, out)
                /\ images' = Append(images, got.images)
                /\ dest' = WriteFile(dest, out.path, out.contents)
                /\ log' = log \o << <<"fetch", RecordOf(module)>>, <<"transform", RecordOf(module)>>,
                                    <<"write", RecordOf(module)>> >>
                /\ i' = i + 1
                /\ UNCHANGED <<pc, err>>
    /\ UNCHANGED <<modules_directory, tree, order, module_type, j, tf_modules,
                   run, dest_start, dest_prev, metaVars, titleVars>>

\* one round of the first loop of main
ProcessModule ==
    /\ pc = "transform" /\ i <= Len(tf_modules)
    /\ LET module == tf_modules[i]
           got == download_images(Remote, module)
       IN  IF module.show_in_hub = "False"
           THEN i' = i + 1 /\ UNCHANGED <<pc, err, output_files, images, log>>
           ELSE IF got.err # None
           THEN Raise(got.err) /\ UNCHANGED <<i, output_files, images, log>>
           ELSE /\ output_files' = Append(output_files, OutputFile(module))
                /\ images' = Append(images, got.images)
                /\ log' = log \o << <<"fetch", RecordOf(module)>>, <<"transform", RecordOf(module)>> >>
                /\ i' = i + 1
                /\ UNCHANGED <<pc, err>>
    /\ UNCHANGED <<modules_directory, tree, order, module_type, dest, j, tf_modules,
                   run, dest_start, dest_prev, metaVars, titleVars>>

\* dest_directory_path.mkdir(...); delete_markdown_files(dest_directory_path)
ClearDest ==
    /\ pc = "transform" /\ i > Len(tf_modules)
    /\ dest' = delete_markdown_files(dest)
    /\ pc' = "write" /\ i' = 1
    /\ log' = Append(log, <<"clear", 0>>)
    /\ UNCHANGED <<modules_directory, tree, order, module_type, j, tf_modules, output_files,
                   images, err, run, dest_start, dest_prev, metaVars, titleVars>>

\* one round of the loop over output_files
WriteOutput ==
    /\ pc = "write" /\ i <= Len(output_files)
    /\ dest' = WriteFile(dest, output_files[i].path, output_files[i].contents)
    /\ log' = Append(log, <<"write", RecordOf(Shown(tf_modules)[i])>>)
    /\ i' = i + 1
    /\ UNCHANGED <<modules_directory, tree, order, module_type, pc, j, tf_modules, output_files,
                   images, err, run, dest_start, dest_prev, metaVars, titleVars>>

BeginSave ==
    /\ pc = "write" /\ i > Len(output_files)
    /\ pc' = "save" /\ i' = 1 /\ j' = 1
    /\ UNCHANGED <<modules_directory, tree, order, module_type, dest, tf_modules, output_files,
                   images, err, log, run, dest_start, dest_prev, metaVars, titleVars>>

\* one round of the inner loop over image_dict.items()
SaveImage ==
    /\ pc = "save" /\ i <= Len(images) /\ j <= Len(images[i])
    /\ dest' = save_image(dest, images[i][j][2], images[i][j][1] \o DotPng)
    /\ log' = Append(log, <<"save", RecordOf(Shown(tf_modules)[i])>>)
    /\ j' = j + 1
    /\ UNCHANGED <<modules_directory, tree, order, module_type, pc, i, tf_modules, output_files,
                   images, err, run, dest_start, dest_prev, metaVars, titleVars>>

NextImageDict ==
    /\ pc = "save" /\ i <= Len(images) /\ j > Len(images[i])
    /\ i' = i + 1 /\ j' = 1
    /\ UNCHANGED <<modules_directory, tree, order, module_type, dest, pc, tf_modules,
                   output_files, images, err, log, run, dest_start, dest_prev, metaVars, titleVars>>

Return ==
    /\ pc = "save" /\ i > Len(images)
    /\ pc' = "done"
    /\ UNCHANGED <<modules_directory, tree, order, module_type, dest, i, j, tf_modules,
                   output_files, images, err, log, run, dest_start, dest_prev, metaVars, titleVars>>

\* main is run again with the same arguments and the same inputs
RunAgain ==
    /\ pc = "done" /\ run < MaxRuns
    /\ run' = run + 1
    /\ dest_prev' = dest /\ dest_start' = dest
    /\ pc' = "parse" /\ i' = 1 /\ j' = 1
    /\ tf_modules' = <<>> /\ output_files' = <<>> /\ images' = <<>> /\ log' = <<>>
    /\ UNCHANGED <<modules_directory, tree, order, module_type, dest, err, metaVars, titleVars>>

Next ==
    \/ ParseReadme
    \/ Filter
    \/ ProcessModule
    \/ ClearDest
    \/ WriteOutput
    \/ BeginSave
    \/ SaveImage
    \/ NextImageDict
    \/ Return
    \/ RunAgain

Spec == Init /\ [][Next]_vars

\* ------------------------------------------- read_and_parse_readme_file

Opt(key, values) == {NoHeader} \cup {key :> v : v \in values}

\* every header over the recognised keys
Headers ==
    { a @@ b @@ c @@ d @@ e @@ f @@ g :
        a \in Opt("slug", {<<"s">>}), b \in Opt("title", {"T"}),
        c \in Opt("cloudId", {Azure}), d \in Opt("short_title", {<<"S","T">>}),
        e \in Opt("type", {"example", "refarch"}), f \in Opt("show_in_hub", {"False"}),
        g \in Opt("description", {"d"}) }

MetaInit ==
    /\ mParts \in {ReadmeParts(p, d) : p \in PathPool, d \in {DirAlb, DirNat}}
    /\ mReadme \in {Readme(h, heading, <<>>) : h \in Headers, heading \in {None, "H"}}
    /\ mPc = "slug" /\ mVals = NoHeader /\ mRan = {} /\ mErr = None
    /\ MainIdle /\ TitleIdle

\* the assignment of one get_meta call, or the exception it lets through
Resolve(key, r, next) ==
    /\ mRan' = IF r.ran THEN mRan \cup {key} ELSE mRan
    /\ IF r.err # None
       THEN mErr' = r.err /\ mPc' = "raised" /\ UNCHANGED mVals
       ELSE mVals' = (key :> r.val) @@ mVals /\ mPc' = next /\ UNCHANGED mErr
    /\ UNCHANGED <<mParts, mReadme, mainVars, titleVars>>

GetSlug       == mPc = "slug" /\ Resolve("slug", MetaSlug(mParts, mReadme), "title")
GetTitle      == mPc = "title" /\ Resolve("title", MetaTitle(mParts, mReadme), "cloudId")
GetCloudId    == mPc = "cloudId" /\ Resolve("cloudId", MetaCloudId(mParts, mReadme), "short_title")
GetShortTitle == mPc = "short_title" /\ Resolve("short_title", MetaShortTitle(mReadme, mVals["slug"]), "type")
GetType       == mPc = "type" /\ Resolve("type", MetaType(mParts, mReadme), "show_in_hub")
GetShowInHub  == mPc = "show_in_hub" /\ Resolve("show_in_hub", MetaShowInHub(mReadme), "description")
GetDescription == mPc = "description" /\ Resolve("description", MetaDescription(mReadme), "return")

\* return TFModule(...): the record is mVals
ReturnModule ==
    /\ mPc = "return" /\ mPc' = "returned"
    /\ UNCHANGED <<mParts, mReadme, mVals, mRan, mErr, mainVars, titleVars>>

MetaNext ==
    \/ GetSlug
    \/ GetTitle
    \/ GetCloudId
    \/ GetShortTitle
    \/ GetType
    \/ GetShowInHub
    \/ GetDescription
    \/ ReturnModule

SpecMeta == MetaInit /\ [][MetaNext]_vars

\* ---------------------------------------------- synthesize_short_title

WordPool ==
    { <<"a","l","b">>, <<"v","p","c">>, <<"a","l","b","u","m">>, Vmseries,
      <<"n","a","t">>, <<"o","u","t">>, <<"x","2","y">> }

RECURSIVE SlugsOf(_)
SlugsOf(n) ==
    IF n <= 1 THEN WordPool
    ELSE {s \o <<sep>> \o w : s \in SlugsOf(n - 1), sep \in {"-", "_"}, w \in WordPool}

TitleInit ==
    /\ tSlug \in UNION {SlugsOf(n) : n \in 1..MaxWords}
    /\ tPc = "split" /\ tK = 1 /\ tStr = <<>>
    /\ MainIdle /\ MetaIdle

\* words = slug.replace("-", "_").split("_"); " ".join(words)
SplitJoin ==
    /\ tPc = "split"
    /\ tStr' = Join(SlugWords(tSlug), <<" ">>)
    /\ tPc' = "title"
    /\ UNCHANGED <<tSlug, tK, mainVars, metaVars>>

\* .title()
TitleCase ==
    /\ tPc = "title"
    /\ tStr' = Title(tStr)
    /\ tPc' = "capitalize" /\ tK' = 1
    /\ UNCHANGED <<tSlug, mainVars, metaVars>>

\* one round of the loop of capitalize_words_in_string
Capitalize ==
    /\ tPc = "capitalize" /\ tK <= Len(KNOWN_ACRYONYMS)
    /\ tStr' = CapitalizeWord(tStr, KNOWN_ACRYONYMS[tK])
    /\ tK' = tK + 1
    /\ UNCHANGED <<tSlug, tPc, mainVars, metaVars>>

\* re.sub(r"vmseries", "VM-Series", short_title, flags=re.IGNORECASE); return
Rename ==
    /\ tPc = "capitalize" /\ tK > Len(KNOWN_ACRYONYMS)
    /\ tStr' = ReplaceFrom(tStr, Vmseries, VMSeries, 1, TRUE)
    /\ tPc' = "done"
    /\ UNCHANGED <<tSlug, tK, mainVars, metaVars>>

TitleNext ==
    \/ SplitJoin
    \/ TitleCase
    \/ Capitalize
    \/ Rename

SpecTitle == TitleInit /\ [][TitleNext]_vars

\* the statements of synthesize_short_title compose to the function
StepsAgree == tPc = "done" => tStr = synthesize_short_title(tSlug)

\* ------------------------------------------------------- claims on main

IsGenerated(f) == EndsWith(f, DotMd) \/ EndsWith(f, DotMdx) \/ EndsWith(f, DotPng)

\* C1: a second run of main with the same arguments and unchanged inputs ends
\* with the destination directory holding the same file names with the same
\* contents as after the first run, whatever the directory held at the start.
C1_Idempotent == (run >= 2 /\ pc = "done") => dest = dest_prev

C1_Witness ==
    /\ run = 2 /\ pc = "done"
    /\ Len(output_files) >= 2 /\ \E k \in DOMAIN images : Len(images[k]) >= 1
    /\ \E f \in DOMAIN dest : ~IsGenerated(f)

\* the records of the READMEs of the tree, when every one of them parses
Discovered ==
    {read_and_parse_readme_file(ReadmeParts(modules_directory, d), tree[d]).module :
        d \in DOMAIN tree}

Surviving ==
    {m \in Discovered : (module_type = None \/ m.type = module_type) /\ m.show_in_hub # "False"}

ImagesOf(module) ==
    {module.readme_contents[p].text :
        p \in {q \in DOMAIN module.readme_contents : module.readme_contents[q].kind = "img"}}

\* C2: after a run that completes, the .md, .mdx and .png files of the
\* destination are exactly <slug>.md for each record of the requested type (any
\* type when none is requested) not hidden from the hub, and <name>.png for each
\* image fetched for those records; nothing older of these extensions remains.
C2_GeneratedFiles ==
    pc = "done" =>
        {f \in DOMAIN dest : IsGenerated(f)}
            = {DestFile(m.slug) : m \in Surviving}
              \cup {ImageName(u) \o DotPng : u \in UNION {ImagesOf(m) : m \in Surviving}}

C2_Witness ==
    /\ pc = "done" /\ run = 1
    /\ \E f \in DOMAIN dest_start : IsGenerated(f) /\ f \notin DOMAIN dest
    /\ Len(output_files) >= 1 /\ Len(output_files) < Len(order)
    /\ \E k \in DOMAIN images : Len(images[k]) >= 1
    /\ module_type # None

\* whether the code resolves neither from the header nor from the path
Unresolvable(d) ==
    LET parts == ReadmeParts(modules_directory, d)
    IN  \/ MetaCloudId(parts, tree[d]).err # None
        \/ MetaType(parts, tree[d]).err # None

\* C3: when a discovered README has a cloud id or a type that cannot be
\* resolved, the run stops with an exception while the READMEs are parsed, at
\* that README at the latest, and the destination directory is as it was when
\* the run began, wherever the README stands among those discovered.
C3_FailsBeforeWriting ==
    (\E d \in DOMAIN tree : Unresolvable(d)) =>
        /\ pc \in {"parse", "failed"}
        /\ dest = dest_start
        /\ pc = "parse" => /\ i <= Len(order)
                           /\ \A k \in 1..(i - 1) : ~Unresolvable(order[k])
        /\ pc = "failed" => err \in {AttributeError, CloudIdError, ModuleTypeError, IndexError}

C3_Witness ==
    /\ pc = "failed" /\ err \in {CloudIdError, ModuleTypeError}
    /\ i = 2 /\ Len(tf_modules) = 1
    /\ \E f \in DOMAIN dest : IsGenerated(f)

HasSlugKey(module) ==
    "slug" \in DOMAIN tree[module.source_file[Len(module.source_file) - 1]].header

\* C5 as claimed: no two records of a run carry the same slug, whether or not
\* the header sets it, so no two output files share a path.
C5_SlugsUnique ==
    /\ \A a, b \in DOMAIN tf_modules : a # b => tf_modules[a].slug # tf_modules[b].slug
    /\ \A a, b \in DOMAIN output_files : a # b => output_files[a].path # output_files[b].path

\* C5 as amended: no two records whose headers set no slug carry the same
\* slug, each being the name of its README's directory; a slug set in the header
\* is taken as it is.
C5_DefaultSlugsUnique ==
    /\ \A a, b \in DOMAIN tf_modules :
          (a # b /\ ~HasSlugKey(tf_modules[a]) /\ ~HasSlugKey(tf_modules[b]))
              => tf_modules[a].slug # tf_modules[b].slug
    /\ \A a \in DOMAIN tf_modules :
          IF HasSlugKey(tf_modules[a])
          THEN tf_modules[a].slug
                  = tree[tf_modules[a].source_file[Len(tf_modules[a].source_file) - 1]].header["slug"]
          ELSE tf_modules[a].slug = tf_modules[a].source_file[Len(tf_modules[a].source_file) - 1]

C5_Witness ==
    /\ pc = "transform" /\ Len(tf_modules) >= 2
    /\ \A a \in DOMAIN tf_modules : ~HasSlugKey(tf_modules[a])

\* C7: for every image reference of a record that is written, the page refers
\* to <last segment of the url>.png in its place, and the destination holds a
\* file of that name with the bytes fetched from that url, also when two urls
\* share their last segment.
C7_ImagesLocalized ==
    pc = "done" =>
        \A k \in DOMAIN output_files :
            LET body == Shown(tf_modules)[k].readme_contents
                page == output_files[k].contents.content
            IN  \A p \in DOMAIN body :
                    body[p].kind = "img" =>
                        LET name == ImageName(body[p].text) \o DotPng
                        IN  /\ page[p].text = name
                            /\ name \in DOMAIN dest
                            /\ dest[name] = Remote[body[p].text]

Phase(step) ==
    CASE step = "parse" -> 1
      [] step \in {"fetch", "transform"} -> 2
      [] step = "clear" -> 3
      [] step = "write" -> 4
      [] step = "save" -> 5

\* C8 as claimed: every step for one record comes before any step for the
\* record discovered after it.
C8_RecordAtATime ==
    \A p, q \in DOMAIN log :
        (p < q /\ log[p][1] # "clear" /\ log[q][1] # "clear") => log[p][2] <= log[q][2]

\* C8 as amended: a run goes through its phases in order, each over all the
\* records before the next begins: every README is parsed, then each record
\* in turn has its images fetched and its page built, then the destination is
\* cleared, then every page is written, then every image is saved; within a
\* phase the records are taken one at a time in the order of discovery.
C8_PhaseAtATime ==
    /\ \A p, q \in DOMAIN log :
          p < q => \/ Phase(log[p][1]) < Phase(log[q][1])
                   \/ Phase(log[p][1]) = Phase(log[q][1]) /\ log[p][2] <= log[q][2]
    /\ \A p \in DOMAIN log :
          log[p][1] = "transform" => p > 1 /\ log[p - 1] = <<"fetch", log[p][2]>>

C8_Witness ==
    /\ pc = "done"
    /\ \E p, q \in DOMAIN log : log[p][1] = "save" /\ log[q][1] = "save" /\ log[p][2] # log[q][2]

\* --------------------------------- claims on read_and_parse_readme_file

\* C4 as claimed: every record built has type "module" or "example", whether
\* the type comes from the header or from the path.
C4_TypeKnown == mPc = "returned" => mVals["type"] \in {"module", "example"}

\* C4 as amended: a record whose header sets no type has type "example" when
\* its README lies under examples and "module" when under modules, and a README
\* under neither, with no type in its header, yields no record; a type set
\* in the header is taken as it is, whatever its value.
C4_PathTypeKnown ==
    LET above == IF Len(mParts) >= 3 THEN mParts[Len(mParts) - 2] ELSE <<>>
    IN  IF "type" \in DOMAIN mReadme.header
        THEN "type" \in DOMAIN mVals => mVals["type"] = mReadme.header["type"]
        ELSE /\ "type" \in DOMAIN mVals =>
                    \/ mVals["type"] = "example" /\ above = Examples
                    \/ mVals["type"] = "module" /\ above = Modules
             /\ above \notin {Examples, Modules} =>
                    /\ mPc # "returned"
                    /\ "type" \notin DOMAIN mVals
                    /\ mPc \notin {"show_in_hub", "description", "return"}

C4_Witness ==
    /\ mPc = "returned" /\ "type" \notin DOMAIN mReadme.header
    /\ mVals["type"] = "example"

\* the cloud ids the pattern of extract_cloud_id finds in the parts of a path
CloudIdsIn(parts) ==
    {extract_cloud_id(parts[k]).val :
        k \in {n \in DOMAIN parts : extract_cloud_id(parts[n]).err = None}}

\* C6: for a README whose header has no cloudId, the cloud id resolved is the
\* one found in the README's path, and the classification error is raised only
\* when no part of the path holds one, wherever the modules directory lies.
C6_CloudIdFromPath ==
    ("cloudId" \notin DOMAIN mReadme.header /\ ("cloudId" \in DOMAIN mVals \/ mErr = CloudIdError)) =>
        IF CloudIdsIn(mParts) # {}
        THEN mErr = None /\ mVals["cloudId"] \in CloudIdsIn(mParts)
        ELSE mErr = CloudIdError

LazyKeys == {"title", "cloudId", "short_title", "type"}

\* C10: for title, cloudId, short_title and type, the fallback is computed
\* only when the header lacks the key: a key of the header gives its value
\* and its fallback never runs, so a header with cloudId and type never ends in
\* a classification error, and one with title never fails for want of a heading.
C10_LazyDefaults ==
    /\ \A key \in LazyKeys :
          IF key \in DOMAIN mReadme.header
          THEN /\ key \notin mRan
               /\ key \in DOMAIN mVals => mVals[key] = mReadme.header[key]
          ELSE key \in DOMAIN mVals => key \in mRan
    /\ {"cloudId", "type"} \subseteq DOMAIN mReadme.header
          => mErr \notin {CloudIdError, ModuleTypeError, IndexError}
    /\ "title" \in DOMAIN mReadme.header => mErr # AttributeError

C10_Witness ==
    /\ mPc = "returned"
    /\ {"title", "cloudId", "type"} \subseteq DOMAIN mReadme.header
    /\ mReadme.heading = None
    /\ extract_cloud_id(mParts[1]).err # None
    /\ determine_module_type(mParts).err # None

\* -------------------------------------- claims on synthesize_short_title

IsKnownAcronym(word) == \E k \in DOMAIN KNOWN_ACRYONYMS : KNOWN_ACRYONYMS[k] = word

\* C9: in the short title, a word of the slug that is a known acronym is in
\* upper case, vmseries is VM-Series, and any other word is title-cased with
\* no other letter in upper case.
C9_WordsCased ==
    tPc = "done" =>
        LET words == SlugWords(tSlug)
            shown == Split(tStr, " ")
        IN  /\ Len(shown) = Len(words)
            /\ \A k \in DOMAIN words :
                  shown[k] = IF IsKnownAcronym(words[k]) THEN UpperStr(words[k])
                             ELSE IF words[k] = Vmseries THEN VMSeries
                             ELSE Title(words[k])

====
